---------------------------- MODULE Spec2Model ----------------------------
(***************************************************************************)
(* Model of wikipedia_first_sentence_analyzer.py: the cache-aware          *)
(* reconstruction of the history of an article's first sentence.           *)
(*                                                                         *)
(* Representation.                                                         *)
(*   - A text is a sequence of tokens.  "_" is one whitespace character,   *)
(*     "." a sentence terminator (. ! ?), "L" the lead-in matched by the   *)
(*     first pattern of clean_sentence ('The 27 Club is'), "M" a lead-in   *)
(*     matched by one of the later patterns, "T" the bare 'The 27 Club'    *)
(*     found only by the substring test, and "a", "b", "x" other words.    *)
(*   - Python's None is the value None below; "" is the empty sequence.    *)
(*   - An instant is an integer number of clock ticks; a day lasts         *)
(*     TicksPerDay ticks.  timedelta.days is the floor of the quotient.    *)
(*   - A dict is a sequence of records with distinct keys, in insertion    *)
(*     order (the order json.dump writes and json.load restores).          *)
(*   - A revision id is an integer; str(int) is injective, so the string   *)
(*     keys of the cache are represented by the integers they print.       *)
(***************************************************************************)
EXTENDS Integers, Sequences, FiniteSets, TLC

\* Bounds of the model.
MaxRevs == 2    \* revision ids of the article: 1..MaxRevs
MaxTime == 1    \* the clock of the index service runs from 0 to MaxTime
MaxRuns == 2    \* runs of analyze_with_cache started
PageSize == 1   \* revisions per page of the listing
MaxObs == 4     \* cache entries of an analysis drawn by InitAnalyze
MaxStamp == 2   \* their timestamps: 0..MaxStamp
MaxEntries == 2 \* entries of a store drawn by InitRecover or InitLoad
MaxFailedObs == 3 \* cache entries of an analysis drawn by InitAnalyzeFailed
MaxPeriods == 2  \* exported periods of an old-format store drawn by InitLoad
MaxNew == 4      \* revisions of the article drawn by InitFetchLoop
MaxLen == 4     \* characters of a text drawn by FetchPlain

\* A day in clock ticks (timedelta.days counts whole days between instants).
TicksPerDay == 2

\* (i + 1) % 100 == 0, with the batch of 100 scaled down to 2.
CheckpointEvery == 2

\* Program constants.
MaxRetries == 3
BaseWait == 5
FallbackLen == 500

None == <<"None">>
NoKey == -1

RevIds == 1..MaxRevs
Times == 0..MaxTime

Range(s) == {s[j] : j \in DOMAIN s}

Ids(d) == {d[j].revid : j \in DOMAIN d}

Entry(d, r) == d[CHOOSE j \in DOMAIN d : d[j].revid = r]

-----------------------------------------------------------------------------
(* Text Normalizer *)

Falsy(s) == s = None \/ s = <<>>

RECURSIVE LStrip(_)
LStrip(s) == IF s # <<>> /\ Head(s) = "_" THEN LStrip(Tail(s)) ELSE s

RECURSIVE RStrip(_)
RStrip(s) ==
    IF s # <<>> /\ s[Len(s)] = "_" THEN RStrip(SubSeq(s, 1, Len(s) - 1)) ELSE s

Strip(s) == RStrip(LStrip(s))

Has(s, t) == \E j \in DOMAIN s : s[j] = t

First(s, t) == CHOOSE j \in DOMAIN s : s[j] = t /\ \A k \in 1..(j - 1) : s[k] # t

From(s, j) == SubSeq(s, j, Len(s))

clean_sentence(sentence) ==
    IF Falsy(sentence) THEN None
    ELSE IF Has(sentence, "L") THEN Strip(From(sentence, First(sentence, "L")))
    ELSE IF Has(sentence, "M") THEN Strip(From(sentence, First(sentence, "M")))
    ELSE IF Has(sentence, "T") THEN Strip(From(sentence, First(sentence, "T")))
    ELSE Strip(sentence)

RECURSIVE CollapseSpaces(_)
CollapseSpaces(s) ==
    IF Len(s) < 2 THEN s
    ELSE IF s[1] = "_" /\ s[2] = "_" THEN CollapseSpaces(Tail(s))
    ELSE <<s[1]>> \o CollapseSpaces(Tail(s))

CleanWhitespace(text) == Strip(CollapseSpaces(text))

SentenceEnd(text, j) ==
    text[j] = "." /\ (j = Len(text) \/ text[j + 1] = "_")

\* The first sentence cut at the first terminator, whatever follows it.
FirstSentence_AnyTerminator(text) ==
    IF Has(text, ".") THEN Strip(SubSeq(text, 1, First(text, ".")))
    ELSE IF text # <<>> THEN Strip(text)
    ELSE None

\* re.search(r'^(.*?[.!?])(?:\s|$)', text), else text[:500]
FirstSentence(text) ==
    IF \E j \in DOMAIN text : SentenceEnd(text, j)
    THEN LET e == CHOOSE j \in DOMAIN text :
                      SentenceEnd(text, j) /\ \A k \in 1..(j - 1) : ~SentenceEnd(text, k)
         IN Strip(SubSeq(text, 1, e))
    ELSE IF text # <<>>
         THEN Strip(SubSeq(text, 1, IF Len(text) < FallbackLen THEN Len(text) ELSE FallbackLen))
         ELSE None

Normalize(html_text) == clean_sentence(FirstSentence(CleanWhitespace(html_text)))

\* The rendered texts the render service may return for a revision.
Texts ==
    { <<>>,
      <<"x", "_", "L", "_", "a", ".">>,
      <<"L", "_", "a", ".", "_", "x", ".">>,
      <<"_", "M", "_", "_", "b">> }

-----------------------------------------------------------------------------
(* Timeline Reconstructor and Aggregator *)

Days(from, to) == (to - from) \div TicksPerDay

Date(t) == t \div TicksPerDay

\* sorted(seq, key): ascending and stable; k[j] is the key of s[j].
StableSort(s, k) ==
    LET n == Len(s)
        rank == [j \in 1..n |->
                    Cardinality({m \in 1..n : k[m] < k[j] \/ (k[m] = k[j] /\ m < j)}) + 1]
    IN [p \in 1..n |-> s[CHOOSE j \in 1..n : rank[j] = p]]

revid_to_timestamp(all_revisions, x) ==
    IF x \in Ids(all_revisions) THEN Entry(all_revisions, x).timestamp ELSE NoKey

\* The timeline without the test of data['sentence'].
BuildTimeline_KeepsFailed(c, all_revisions) ==
    LET keys == [j \in DOMAIN c |-> revid_to_timestamp(all_revisions, c[j].revid)]
    IN StableSort(c, keys)

BuildTimeline(c, all_revisions) ==
    LET keys == [j \in DOMAIN c |-> revid_to_timestamp(all_revisions, c[j].revid)]
        ordered == StableSort(c, keys)
        Valid(e) == ~Falsy(e.sentence)
    IN SelectSeq(ordered, Valid)

\* DurationLoop without "last_timestamp = current_timestamp": every period starts
\* at the first observation.
RECURSIVE DurationLoop_KeepsFirstTimestamp(_, _, _, _, _)
DurationLoop_KeepsFirstTimestamp(timeline, j, last_sentence, last_timestamp, acc) ==
    IF j > Len(timeline) THEN
        [durations |-> acc, last_sentence |-> last_sentence,
         last_timestamp |-> last_timestamp]
    ELSE IF timeline[j].sentence # last_sentence THEN
        DurationLoop_KeepsFirstTimestamp(timeline, j + 1, timeline[j].sentence,
            IF last_sentence # None THEN last_timestamp ELSE timeline[j].timestamp,
            IF last_sentence # None
            THEN Append(acc, [sentence |-> last_sentence,
                              start_date |-> last_timestamp,
                              end_date |-> timeline[j].timestamp,
                              days |-> Days(last_timestamp, timeline[j].timestamp)])
            ELSE acc)
    ELSE DurationLoop_KeepsFirstTimestamp(timeline, j + 1, last_sentence,
                                          last_timestamp, acc)

\* The loop that closes a period at every observation, changed or not.
RECURSIVE DurationLoop_EveryObservation(_, _, _, _, _)
DurationLoop_EveryObservation(timeline, j, last_sentence, last_timestamp, acc) ==
    IF j > Len(timeline) THEN
        [durations |-> acc, last_sentence |-> last_sentence,
         last_timestamp |-> last_timestamp]
    ELSE DurationLoop_EveryObservation(
             timeline, j + 1, timeline[j].sentence, timeline[j].timestamp,
             IF last_sentence # None
             THEN Append(acc, [sentence |-> last_sentence,
                               start_date |-> last_timestamp,
                               end_date |-> timeline[j].timestamp,
                               days |-> Days(last_timestamp, timeline[j].timestamp)])
             ELSE acc)

RECURSIVE DurationLoop(_, _, _, _, _)
DurationLoop(timeline, j, last_sentence, last_timestamp, acc) ==
    IF j > Len(timeline) THEN
        [durations |-> acc, last_sentence |-> last_sentence,
         last_timestamp |-> last_timestamp]
    ELSE IF timeline[j].sentence # last_sentence THEN
        DurationLoop(timeline, j + 1, timeline[j].sentence, timeline[j].timestamp,
            IF last_sentence # None
            THEN Append(acc, [sentence |-> last_sentence,
                              start_date |-> last_timestamp,
                              end_date |-> timeline[j].timestamp,
                              days |-> Days(last_timestamp, timeline[j].timestamp)])
            ELSE acc)
    ELSE DurationLoop(timeline, j + 1, last_sentence, last_timestamp, acc)

\* CalcDurations without the final period (the sentence still in effect).
CalcDurations_NoFinalPeriod(timeline, now1, now2) ==
    DurationLoop(timeline, 1, None, 0, <<>>).durations

\* now1 and now2 are the two readings of datetime.now() that close the last period.
CalcDurations(timeline, now1, now2) ==
    LET r == DurationLoop(timeline, 1, None, 0, <<>>)
    IN IF r.last_sentence # None
       THEN Append(r.durations, [sentence |-> r.last_sentence,
                                 start_date |-> r.last_timestamp,
                                 end_date |-> now2,
                                 days |-> Days(r.last_timestamp, now1)])
       ELSE r.durations

Occurrence(period) ==
    [start |-> Date(period.start_date), end |-> Date(period.end_date),
     days |-> period.days]

RECURSIVE GroupLoop(_, _, _)
GroupLoop(sentence_durations, j, unique) ==
    IF j > Len(sentence_durations) THEN unique
    ELSE LET period == sentence_durations[j]
             s == period.sentence
         IN IF Falsy(s) THEN GroupLoop(sentence_durations, j + 1, unique)
            ELSE IF \E m \in DOMAIN unique : unique[m].sentence = s
            THEN LET m == CHOOSE m \in DOMAIN unique : unique[m].sentence = s
                 IN GroupLoop(sentence_durations, j + 1,
                        [unique EXCEPT
                            ![m].days = @ + period.days,
                            ![m].occurrences = Append(@, Occurrence(period)),
                            ![m].total_occurrences = @ + 1])
            ELSE GroupLoop(sentence_durations, j + 1,
                     Append(unique, [sentence |-> s,
                                     days |-> period.days,
                                     occurrences |-> <<Occurrence(period)>>,
                                     total_occurrences |-> 1]))

\* The grouping with "days = period['days']" for "days += period['days']".
unique_sentences_OverwritesDays(sentence_durations) ==
    LET u == GroupLoop(sentence_durations, 1, <<>>)
    IN [m \in DOMAIN u |->
           [u[m] EXCEPT !.days = u[m].occurrences[Len(u[m].occurrences)].days]]

unique_sentences(sentence_durations) == GroupLoop(sentence_durations, 1, <<>>)

\* The ranking without reverse=True.
sorted_sentences_Ascending(unique) ==
    StableSort(unique, [j \in DOMAIN unique |-> unique[j].days])

\* sorted(..., key=days, reverse=True): descending and stable.
sorted_sentences(unique) ==
    StableSort(unique, [j \in DOMAIN unique |-> 0 - unique[j].days])

Sentences(sorted) ==
    [j \in DOMAIN sorted |->
        [sentence |-> sorted[j].sentence,
         total_days |-> sorted[j].days,
         total_occurrences |-> sorted[j].total_occurrences,
         periods |-> sorted[j].occurrences]]

-----------------------------------------------------------------------------
(* Revision Cache: the store (the JSON file) and load_cache *)

VARIABLES
    store,            \* the cache file
    index,            \* the revision index service: revid -> timestamp
    deleted,          \* revisions the service no longer lists
    now,              \* the wall clock
    runs,             \* runs of analyze_with_cache started so far
    pc,               \* where the current run stands
    cache,            \* analyze_with_cache: cache
    all_revisions,    \* get_all_revision_ids: revisions
    new_revids_list,  \* analyze_with_cache: new_revids_list
    i,                \* analyze_with_cache: the fetch loop's index
    retry_count,      \* get_first_sentence_from_revision: retry_count
    waits,            \* the time.sleep(wait_time) calls of the fetch under way, in order
    attempts,         \* its requests.get calls so far, each answered with a 429
    status,           \* the latest answer: "429" (rate limit), "error", or "none"
    html_content,     \* the text of the latest 200 answer, None without one
    fetchLog,         \* the revisions the Content Fetcher was invoked for, in order
    fetchedNone,      \* the revisions whose fetch returned None in this run
    result,           \* timeline, sentence_durations and the ranked list of this run
    loaded,           \* what load_cache returned to this run
    loadedFrom,       \* the store load_cache read in this run
    truncated,        \* the revision_cache the file held when this run last opened it
    rerun,            \* this run started from a completed run's store, index and clock unchanged
    unchanged         \* a run completed, and index and clock are as it saw them

runVars == <<cache, all_revisions, new_revids_list, i, retry_count, waits, attempts,
             status, html_content, fetchLog, fetchedNone, result, loaded, loadedFrom,
             truncated, rerun>>

envVars == <<index, deleted, now>>

histVars == <<unchanged>>

vars == <<store, index, deleted, now, runs, pc, cache, all_revisions, new_revids_list,
          i, retry_count, waits, attempts, status, html_content, fetchLog, fetchedNone,
          result, loaded, loadedFrom, truncated, rerun, unchanged>>

Absent == [kind |-> "absent", revision_cache |-> <<>>, sentences |-> <<>>]

\* open(cache_file, 'w') has truncated the file and json.dump has not finished.
Partial == [kind |-> "partial", revision_cache |-> <<>>, sentences |-> <<>>]

NoResult ==
    [timeline |-> <<>>, sentence_durations |-> <<>>, sentences |-> <<>>,
     now1 |-> 0, now2 |-> 0]

\* The clean-up with the migration's timestamp: the date at T00:00:00Z.
CleanEntry_DateOnly(e) ==
    [revid |-> e.revid, timestamp |-> Date(e.timestamp) * TicksPerDay,
     sentence |-> clean_sentence(e.sentence)]

CleanEntry(e) ==
    [revid |-> e.revid, timestamp |-> e.timestamp,
     sentence |-> clean_sentence(e.sentence)]

\* cache[str(revid)] = {...}
Put(c, e) ==
    IF e.revid \in Ids(c)
    THEN [j \in DOMAIN c |-> IF c[j].revid = e.revid THEN e ELSE c[j]]
    ELSE Append(c, e)

\* data['timestamp'] and data['sentence'] raise KeyError on an entry without them.
HasFields(e) == {"timestamp", "sentence"} \subseteq DOMAIN e

\* The old format: the period of an exported sentence that carries a revid
\* becomes the cache entry of that revision, dated at the start of the period.
RECURSIVE MigratePeriods(_, _, _, _)
MigratePeriods(c, sentence, periods, j) ==
    IF j > Len(periods) THEN c
    ELSE MigratePeriods(
             IF "revid" \in DOMAIN periods[j]
             THEN Put(c, [revid |-> periods[j].revid,
                          timestamp |-> periods[j].start * TicksPerDay,
                          sentence |-> clean_sentence(sentence)])
             ELSE c,
             sentence, periods, j + 1)

RECURSIVE Migrate(_, _, _)
Migrate(c, sentences, k) ==
    IF k > Len(sentences) THEN c
    ELSE Migrate(MigratePeriods(c, sentences[k].sentence, sentences[k].periods, 1),
                 sentences, k + 1)

\* The 'revision_cache' of the file, or the one derived from its 'sentences'.
RawCache(file) ==
    IF file.kind = "legacy" THEN Migrate(<<>>, file.sentences, 1)
    ELSE file.revision_cache

\* The load that leaves out the entries without a sentence.
load_cache_DropsFailed(file) ==
    IF file.kind = "absent" THEN <<>>
    ELSE IF file.kind = "partial" THEN <<>>
    ELSE IF \E j \in DOMAIN RawCache(file) : ~HasFields(RawCache(file)[j]) THEN <<>>
    ELSE SelectSeq([j \in DOMAIN RawCache(file) |-> CleanEntry(RawCache(file)[j])],
                   LAMBDA e : e.sentence # None)

\* The load that skips an entry lacking a field and keeps the others.
load_cache_SkipsBroken(file) ==
    IF file.kind = "absent" THEN <<>>
    ELSE IF file.kind = "partial" THEN <<>>
    ELSE LET whole == SelectSeq(RawCache(file), HasFields)
         IN [j \in DOMAIN whole |-> CleanEntry(whole[j])]

\* A missing file gives {}; so does a file json.load rejects, or one with an
\* entry that lacks a field (the except branch).
load_cache(file) ==
    IF file.kind = "absent" THEN <<>>
    ELSE IF file.kind = "partial" THEN <<>>
    ELSE IF \E j \in DOMAIN RawCache(file) : ~HasFields(RawCache(file)[j]) THEN <<>>
    ELSE [j \in DOMAIN RawCache(file) |-> CleanEntry(RawCache(file)[j])]

-----------------------------------------------------------------------------
(* Revision Index Client *)

\* The listing of the service: oldest first (rvdir=newer).
IndexList(idx) ==
    LET D == DOMAIN idx
        Before(q, r) == idx[q] < idx[r] \/ (idx[q] = idx[r] /\ q < r)
        pos == [r \in D |-> Cardinality({q \in D : Before(q, r)}) + 1]
    IN [p \in 1..Cardinality(D) |->
           LET r == CHOOSE r \in D : pos[r] = p
           IN [revid |-> r, timestamp |-> idx[r]]]

Min(a, b) == IF a < b THEN a ELSE b

NextPage(idx, got) ==
    SubSeq(IndexList(idx), Len(got) + 1, Min(Len(got) + PageSize, Len(IndexList(idx))))

\* sorted([int(r) for r in all_revids - cached_revids])
SortedIds(S) ==
    [p \in 1..Cardinality(S) |->
        CHOOSE r \in S : Cardinality({q \in S : q < r}) + 1 = p]

\* The diff that forgets the cache.
new_revids_IgnoresCache(all, c) == Ids(all)

\* The diff that takes a cached failure for missing.
new_revids_RetriesFailed(all, c) ==
    Ids(all) \ {e.revid : e \in {x \in Range(c) : x.sentence # None}}

\* set(all_revids) - set(cache.keys())
new_revids(all, c) == Ids(all) \ Ids(c)

-----------------------------------------------------------------------------
(* The environment *)

Init ==
    /\ store = Absent
    /\ index = <<>>
    /\ deleted = {}
    /\ now = 0
    /\ runs = 0
    /\ pc = "idle"
    /\ cache = <<>>
    /\ all_revisions = <<>>
    /\ new_revids_list = <<>>
    /\ i = 0
    /\ retry_count = 0
    /\ waits = <<>>
    /\ attempts = 0
    /\ status = "none"
    /\ html_content = None
    /\ fetchLog = <<>>
    /\ fetchedNone = {}
    /\ result = NoResult
    /\ loaded = <<>>
    /\ loadedFrom = Absent
    /\ truncated = <<>>
    /\ rerun = FALSE
    /\ unchanged = FALSE

Resting == pc = "idle"

\* The article changes, or time passes, between two runs.
BetweenRuns == Resting /\ runs < MaxRuns

ResetRun ==
    /\ cache' = <<>>
    /\ all_revisions' = <<>>
    /\ new_revids_list' = <<>>
    /\ i' = 0
    /\ retry_count' = 0
    /\ waits' = <<>>
    /\ attempts' = 0
    /\ status' = "none"
    /\ html_content' = None
    /\ fetchLog' = <<>>
    /\ fetchedNone' = {}
    /\ result' = NoResult
    /\ loaded' = <<>>
    /\ loadedFrom' = Absent
    /\ truncated' = <<>>
    /\ rerun' = FALSE

\* An editor saves a new revision of the article.
AddRevision(r) ==
    /\ BetweenRuns
    /\ r \notin DOMAIN index \cup deleted
    /\ index' = [x \in DOMAIN index \cup {r} |-> IF x = r THEN now ELSE index[x]]
    /\ unchanged' = FALSE
    /\ UNCHANGED <<store, deleted, now, runs, pc, runVars>>

\* A revision is removed from the article's history.
RemoveRevision(r) ==
    /\ BetweenRuns
    /\ r \in DOMAIN index
    /\ index' = [x \in DOMAIN index \ {r} |-> index[x]]
    /\ deleted' = deleted \cup {r}
    /\ unchanged' = FALSE
    /\ UNCHANGED <<store, now, runs, pc, runVars>>

Tick ==
    /\ BetweenRuns
    /\ now < MaxTime
    /\ now' = now + 1
    /\ unchanged' = FALSE
    /\ UNCHANGED <<store, index, deleted, runs, pc, runVars>>

\* The process is interrupted.
Crash ==
    /\ ~Resting
    /\ pc' = "idle"
    /\ ResetRun
    /\ UNCHANGED <<store, envVars, runs, histVars>>

-----------------------------------------------------------------------------
(* analyze_with_cache *)

StartRun ==
    /\ Resting
    /\ runs < MaxRuns
    /\ runs' = runs + 1
    /\ cache' = load_cache(store)
    /\ loaded' = load_cache(store)
    /\ loadedFrom' = store
    /\ truncated' = <<>>
    /\ rerun' = unchanged
    /\ all_revisions' = <<>>
    /\ new_revids_list' = <<>>
    /\ i' = 0
    /\ retry_count' = 0
    /\ waits' = <<>>
    /\ attempts' = 0
    /\ status' = "none"
    /\ html_content' = None
    /\ fetchLog' = <<>>
    /\ fetchedNone' = {}
    /\ result' = NoResult
    /\ pc' = "listing"
    /\ UNCHANGED <<store, envVars, histVars>>

\* One page of get_all_revision_ids that carries a continuation token.
ListPage ==
    /\ pc = "listing"
    /\ DOMAIN index # {}
    /\ Len(all_revisions) + PageSize < Len(IndexList(index))
    /\ all_revisions' = all_revisions \o NextPage(index, all_revisions)
    /\ UNCHANGED <<store, envVars, runs, pc, cache, new_revids_list, i, retry_count,
                   waits, attempts, status, html_content, fetchLog, fetchedNone, result, loaded,
                   loadedFrom, truncated, rerun, histVars>>

\* The last page, then the cache diff.
ListLastPage ==
    /\ pc = "listing"
    /\ DOMAIN index # {}
    /\ Len(all_revisions) + PageSize >= Len(IndexList(index))
    /\ LET all == all_revisions \o NextPage(index, all_revisions)
       IN /\ all_revisions' = all
          /\ new_revids_list' = SortedIds(new_revids(all, cache))
    /\ pc' = "loop"
    /\ UNCHANGED <<store, envVars, runs, cache, i, retry_count, waits, attempts,
                   status, html_content, fetchLog, fetchedNone, result, loaded, loadedFrom,
                   truncated, rerun, histVars>>

CheckpointData(c) == [kind |-> "checkpoint", revision_cache |-> c, sentences |-> <<>>]

\* The run that saves what it has when the listing fails.
ListFail_SavesCache ==
    /\ pc = "listing"
    /\ pc' = "idle"
    /\ store' = CheckpointData(cache)
    /\ status' = "error"
    /\ cache' = <<>>
    /\ all_revisions' = <<>>
    /\ new_revids_list' = <<>>
    /\ i' = 0
    /\ retry_count' = 0
    /\ waits' = <<>>
    /\ attempts' = 0
    /\ html_content' = None
    /\ fetchLog' = <<>>
    /\ fetchedNone' = {}
    /\ result' = NoResult
    /\ loaded' = <<>>
    /\ loadedFrom' = Absent
    /\ truncated' = <<>>
    /\ rerun' = FALSE
    /\ UNCHANGED <<envVars, runs, histVars>>

\* A page answers with a non-200 status, invalid JSON or page id -1:
\* get_all_revision_ids returns [] and analyze_with_cache returns.
ListFail ==
    /\ pc = "listing"
    /\ pc' = "idle"
    /\ cache' = <<>>
    /\ all_revisions' = <<>>
    /\ new_revids_list' = <<>>
    /\ i' = 0
    /\ retry_count' = 0
    /\ waits' = <<>>
    /\ attempts' = 0
    /\ status' = "error"
    /\ html_content' = None
    /\ fetchLog' = <<>>
    /\ fetchedNone' = {}
    /\ result' = NoResult
    /\ loaded' = <<>>
    /\ loadedFrom' = Absent
    /\ truncated' = <<>>
    /\ rerun' = FALSE
    /\ UNCHANGED <<store, envVars, runs, histVars>>

InLoop == pc = "loop" /\ i < Len(new_revids_list)

CheckpointDue == (i + 1) % CheckpointEvery = 0

\* with open(cache_file, 'w'): the file is truncated.
CheckpointOpen ==
    /\ InLoop
    /\ CheckpointDue
    /\ store' = Partial
    /\ truncated' = store.revision_cache
    /\ unchanged' = FALSE
    /\ pc' = "checkpoint"
    /\ UNCHANGED <<envVars, runs, cache, all_revisions, new_revids_list, i, retry_count,
                   waits, attempts, status, html_content, fetchLog, fetchedNone, result, loaded,
                   loadedFrom, rerun>>

\* json.dump(checkpoint_data, f) and the close of the file.
CheckpointDump ==
    /\ pc = "checkpoint"
    /\ store' = CheckpointData(cache)
    /\ pc' = "fetch"
    /\ UNCHANGED <<envVars, runs, runVars, histVars>>

\* The loop body is at (or back in) get_first_sentence_from_revision.
FirstRequest == pc = "fetch" \/ (InLoop /\ ~CheckpointDue)

AtRequest == FirstRequest \/ pc = "retry"

revid == new_revids_list[i + 1]

\* The bookkeeping of one requests.get that is answered with a 429.  It is
\* kept after the fetch gave up, until the next request; a fetch that ends
\* otherwise clears it.
Requested ==
    /\ attempts' = IF FirstRequest THEN 1 ELSE attempts + 1
    /\ fetchLog' = IF FirstRequest THEN Append(fetchLog, revid) ELSE fetchLog

\* get_first_sentence_from_revision returns sentence; the loop stores it under
\* the index's timestamp.  Every id of the diff is listed in all_revisions with
\* a timestamp, so the loop's "if not timestamp: continue" is never taken.
Return(sentence) ==
    /\ cache' = Put(cache, [revid |-> revid,
                            timestamp |-> revid_to_timestamp(all_revisions, revid),
                            sentence |-> sentence])
    /\ fetchedNone' = IF sentence = None THEN fetchedNone \cup {revid} ELSE fetchedNone
    /\ i' = i + 1
    /\ retry_count' = 0
    /\ pc' = "loop"

RECURSIVE Pow2(_)
Pow2(n) == IF n = 0 THEN 1 ELSE 2 * Pow2(n - 1)

\* A wait that grows by BaseWait instead of doubling.
wait_time_Linear(retries) == (retries + 1) * BaseWait

\* (2 ** retry_count) * 5
wait_time(retries) == Pow2(retries) * BaseWait

\* Status 429 with retries left: sleep, then call again.
RateLimited ==
    /\ AtRequest
    /\ retry_count < MaxRetries
    /\ Requested
    /\ waits' = IF FirstRequest THEN <<wait_time(retry_count)>>
                ELSE Append(waits, wait_time(retry_count))
    /\ retry_count' = retry_count + 1
    /\ status' = "429"
    /\ html_content' = None
    /\ pc' = "retry"
    /\ UNCHANGED <<store, envVars, runs, cache, all_revisions, new_revids_list, i,
                   fetchedNone, result, loaded, loadedFrom, truncated, rerun, histVars>>

\* Status 429 with no retry left.
RateLimitExhausted ==
    /\ AtRequest
    /\ retry_count >= MaxRetries
    /\ Requested
    /\ waits' = IF FirstRequest THEN <<>> ELSE waits
    /\ status' = "429"
    /\ html_content' = None
    /\ Return(None)
    /\ UNCHANGED <<store, envVars, runs, all_revisions, new_revids_list, result,
                   loaded, loadedFrom, truncated, rerun, histVars>>

\* A failure that is treated like a 429: sleep, then call again.
FetchError_Retries ==
    /\ AtRequest
    /\ retry_count < MaxRetries
    /\ Requested
    /\ waits' = IF FirstRequest THEN <<wait_time(retry_count)>>
                ELSE Append(waits, wait_time(retry_count))
    /\ retry_count' = retry_count + 1
    /\ status' = "error"
    /\ html_content' = None
    /\ pc' = "retry"
    /\ UNCHANGED <<store, envVars, runs, cache, all_revisions, new_revids_list, i,
                   fetchedNone, result, loaded, loadedFrom, truncated, rerun, histVars>>

\* Another non-200 status, invalid JSON or no parsed text.
FetchError ==
    /\ AtRequest
    /\ fetchLog' = IF FirstRequest THEN Append(fetchLog, revid) ELSE fetchLog
    /\ attempts' = 0
    /\ waits' = <<>>
    /\ status' = "error"
    /\ html_content' = None
    /\ Return(None)
    /\ UNCHANGED <<store, envVars, runs, all_revisions, new_revids_list, result,
                   loaded, loadedFrom, truncated, rerun, histVars>>

\* Status 200 with the rendered lead section.
FetchOk(text) ==
    /\ AtRequest
    /\ fetchLog' = IF FirstRequest THEN Append(fetchLog, revid) ELSE fetchLog
    /\ attempts' = 0
    /\ waits' = <<>>
    /\ status' = "none"
    /\ html_content' = text
    /\ Return(Normalize(text))
    /\ UNCHANGED <<store, envVars, runs, all_revisions, new_revids_list, result,
                   loaded, loadedFrom, truncated, rerun, histVars>>

Analysis(c, all, now1, now2) ==
    LET timeline == BuildTimeline(c, all)
        sentence_durations == CalcDurations(timeline, now1, now2)
    IN [timeline |-> timeline,
        sentence_durations |-> sentence_durations,
        sentences |-> Sentences(sorted_sentences(unique_sentences(sentence_durations))),
        now1 |-> now1, now2 |-> now2]

Output(c, res) == [kind |-> "output", revision_cache |-> c, sentences |-> res.sentences]

\* After the loop: the timeline, the durations, the ranking, and the open of the file.
Analyze ==
    /\ pc = "loop"
    /\ i >= Len(new_revids_list)
    /\ \E now2 \in {now, IF now < MaxTime THEN now + 1 ELSE now} :
          /\ result' = Analysis(cache, all_revisions, now, now2)
          /\ now' = now2
    /\ store' = Partial
    /\ truncated' = store.revision_cache
    /\ unchanged' = FALSE
    /\ waits' = <<>>
    /\ attempts' = 0
    /\ status' = "none"
    /\ html_content' = None
    /\ pc' = "final_write"
    /\ UNCHANGED <<index, deleted, runs, cache, all_revisions, new_revids_list, i,
                   retry_count, fetchLog, fetchedNone, loaded, loadedFrom, rerun>>

\* json.dump(output, f), the close of the file, and the return.
FinalWrite ==
    /\ pc = "final_write"
    /\ store' = Output(cache, result)
    /\ unchanged' = (result.now1 = result.now2)
    /\ pc' = "idle"
    /\ ResetRun
    /\ UNCHANGED <<envVars, runs>>

Next ==
    \/ \E r \in RevIds : AddRevision(r)
    \/ \E r \in RevIds : RemoveRevision(r)
    \/ Tick
    \/ Crash
    \/ StartRun
    \/ ListPage
    \/ ListLastPage
    \/ ListFail
    \/ CheckpointOpen
    \/ CheckpointDump
    \/ RateLimited
    \/ RateLimitExhausted
    \/ FetchError
    \/ \E text \in Texts : FetchOk(text)
    \/ Analyze
    \/ FinalWrite

Spec == Init /\ [][Next]_vars

\* One run of analyze_with_cache, with nothing changing around it.
NextRun ==
    \/ StartRun
    \/ ListPage
    \/ ListLastPage
    \/ ListFail
    \/ CheckpointOpen
    \/ CheckpointDump
    \/ RateLimited
    \/ RateLimitExhausted
    \/ FetchError
    \/ \E text \in Texts : FetchOk(text)
    \/ Analyze
    \/ FinalWrite

\* The state before a run: the article has the revisions of idx, no run is
\* under way, and one run is still to start.
BeforeRun(file, idx) ==
    /\ store = file
    /\ index = idx
    /\ deleted = {}
    /\ now = 0
    /\ runs = MaxRuns - 1
    /\ pc = "idle"
    /\ cache = <<>>
    /\ all_revisions = <<>>
    /\ new_revids_list = <<>>
    /\ i = 0
    /\ retry_count = 0
    /\ waits = <<>>
    /\ attempts = 0
    /\ status = "none"
    /\ html_content = None
    /\ fetchLog = <<>>
    /\ fetchedNone = {}
    /\ result = NoResult
    /\ loaded = <<>>
    /\ loadedFrom = Absent
    /\ truncated = <<>>
    /\ rerun = FALSE
    /\ unchanged = FALSE

-----------------------------------------------------------------------------
(* The fetch of one revision whose rendered text is any plain text of up to   *)
(* MaxLen characters: the first run on an article of one revision, after the  *)
(* listing.                                                                   *)

PlainTokens == {"_", ".", "L", "M", "T", "a"}

InitNormalize ==
    /\ store = Absent
    /\ index = [r \in {1} |-> 0]
    /\ deleted = {}
    /\ now = 0
    /\ runs = MaxRuns
    /\ pc = "loop"
    /\ cache = <<>>
    /\ all_revisions = IndexList(index)
    /\ new_revids_list = <<1>>
    /\ i = 0
    /\ retry_count = 0
    /\ waits = <<>>
    /\ attempts = 0
    /\ status = "none"
    /\ html_content = None
    /\ fetchLog = <<>>
    /\ fetchedNone = {}
    /\ result = NoResult
    /\ loaded = <<>>
    /\ loadedFrom = Absent
    /\ truncated = <<>>
    /\ rerun = FALSE
    /\ unchanged = FALSE

FetchPlain == \E n \in 0..MaxLen : \E text \in [1..n -> PlainTokens] : FetchOk(text)

NextNormalize == FetchPlain

SpecNormalize == InitNormalize /\ [][NextNormalize]_vars

-----------------------------------------------------------------------------
(* A run that finds a store it cannot use: a file json.load rejects, or a     *)
(* revision_cache of up to MaxEntries entries of which one or more lack a     *)
(* field.                                                                     *)

StoredEntries ==
    {[revid |-> 1, timestamp |-> 0, sentence |-> <<"L", "_", "a", ".">>],
     [revid |-> 1, timestamp |-> 0],
     [revid |-> 1, sentence |-> <<"L", "_", "a", ".">>]}

\* The entries es, keyed 1, 2, ... in their order.
Keyed(es) == [j \in DOMAIN es |-> [es[j] EXCEPT !.revid = j]]

CorruptStores ==
    {Partial} \cup
    {[kind |-> "output", revision_cache |-> Keyed(es), sentences |-> <<>>] :
        es \in {x \in UNION {[1..n -> StoredEntries] : n \in 1..MaxEntries} :
                   \E j \in DOMAIN x : ~HasFields(x[j])}}

InitRecover ==
    \E file \in CorruptStores : BeforeRun(file, [r \in RevIds |-> 0])

SpecRecover == InitRecover /\ [][NextRun]_vars

\* The stores a load may meet.  A store of the current format holds up to
\* MaxEntries entries: a failed fetch, a clean sentence, or a sentence saved
\* before the clean-up.
StoredSentences == {None, <<"L", "_", "a", ".">>, <<"x", "_", "L", "_", "a", ".">>}

CurrentStores ==
    {[kind |-> k, revision_cache |-> Keyed(es), sentences |-> <<>>] :
        k \in {"output", "checkpoint"},
        es \in UNION {[1..n -> {[revid |-> 1, timestamp |-> 0, sentence |-> x] :
                                   x \in StoredSentences}] : n \in 0..MaxEntries}}

\* A store of the old format has no 'revision_cache' but the exported
\* 'sentences', with up to MaxPeriods periods in all.  Period j is of the
\* sentence ls[j] and carries the revid rv[j], or none when rv[j] = 0, as the
\* periods exported by analyze_with_cache do.
ExportedSentences == << <<"x", "_", "L", "_", "a", ".">>, <<"M", "_", "b">> >>

ExportedPeriod(j, r) ==
    IF r = 0 THEN [start |-> j - 1, end |-> j - 1, days |-> 0]
    ELSE [revid |-> r, start |-> j - 1, end |-> j - 1, days |-> 0]

LegacyStore(n, ls, rv) ==
    LET idx == [j \in 1..n |-> j]
        firsts == SelectSeq(idx, LAMBDA j : \A m \in 1..(j - 1) : ls[m] # ls[j])
        PeriodsOf(l) ==
            LET of == SelectSeq(idx, LAMBDA j : ls[j] = l)
            IN [m \in DOMAIN of |-> ExportedPeriod(of[m], rv[of[m]])]
    IN [kind |-> "legacy", revision_cache |-> <<>>,
        sentences |-> [m \in DOMAIN firsts |->
                          [sentence |-> ExportedSentences[ls[firsts[m]]],
                           total_days |-> 0,
                           total_occurrences |-> Len(PeriodsOf(ls[firsts[m]])),
                           periods |-> PeriodsOf(ls[firsts[m]])]]]

LegacyStores ==
    UNION {{LegacyStore(n, ls, rv) :
                ls \in [1..n -> DOMAIN ExportedSentences],
                rv \in [1..n -> 0..MaxRevs]} : n \in 0..MaxPeriods}

InitLoad ==
    \E file \in CurrentStores \cup LegacyStores : BeforeRun(file, <<>>)

NextLoad == StartRun

SpecLoad == InitLoad /\ [][NextLoad]_vars

\* One run without a store over an article of MaxNew revisions, all of them
\* to fetch: the loop passes its checkpoint more than once.
InitFetchLoop == BeforeRun(Absent, [r \in 1..MaxNew |-> 0])

SpecFetchLoop == InitFetchLoop /\ [][NextRun]_vars

-----------------------------------------------------------------------------
(* The analysis of a bounded cache: the state after the fetch loop, for every *)
(* checkpointed cache of up to MaxObs valid entries, all in the index.  The   *)
(* analysis compares sentences for equality only, so the sentences of a cache *)
(* are named in the order of their first use: an entry holds a sentence used  *)
(* by an earlier entry or the next sentence of ObservedSentences.             *)

ObservedSentences ==
    << Normalize(<<"x", "_", "L", "_", "a", ".">>),
       Normalize(<<"_", "M", "_", "_", "b">>),
       Normalize(<<"x", "_", "T", "_", "a", ".">>) >>

InOrderOfFirstUse(ls) ==
    \A j \in DOMAIN ls :
        \/ ls[j] = 1
        \/ \E m \in 1..(j - 1) : ls[m] >= ls[j] - 1

CacheOf(n, ts, ls) ==
    [j \in 1..n |->
        [revid |-> j, timestamp |-> ts[j], sentence |-> ObservedSentences[ls[j]]]]

InitAnalyze ==
    /\ deleted = {}
    /\ now = MaxStamp + 1
    /\ runs = 1
    /\ pc = "loop"
    /\ \E n \in 0..MaxObs :
          \E ts \in [1..n -> 0..MaxStamp],
             ls \in {l \in [1..n -> DOMAIN ObservedSentences] : InOrderOfFirstUse(l)} :
              cache = CacheOf(n, ts, ls)
    /\ index = [r \in Ids(cache) |-> Entry(cache, r).timestamp]
    /\ all_revisions = IndexList(index)
    /\ new_revids_list = <<>>
    /\ i = 0
    /\ retry_count = 0
    /\ waits = <<>>
    /\ attempts = 0
    /\ status = "none"
    /\ html_content = None
    /\ fetchLog = <<>>
    /\ fetchedNone = {}
    /\ result = NoResult
    /\ store = CheckpointData(cache)
    /\ loaded = load_cache(store)
    /\ loadedFrom = store
    /\ truncated = <<>>
    /\ rerun = FALSE
    /\ unchanged = FALSE

NextAnalyze == Analyze

SpecAnalyze == InitAnalyze /\ [][NextAnalyze]_vars

\* The same for a cache of up to MaxFailedObs entries of which any may be a
\* failed fetch (label 0, sentence None), the others holding one of two
\* sentences.
FailedOrInOrderOfFirstUse(ls) ==
    \A j \in DOMAIN ls :
        \/ ls[j] <= 1
        \/ \E m \in 1..(j - 1) : ls[m] >= ls[j] - 1

CacheWithFailedOf(n, ts, ls) ==
    [j \in 1..n |->
        [revid |-> j, timestamp |-> ts[j],
         sentence |-> IF ls[j] = 0 THEN None ELSE ObservedSentences[ls[j]]]]

InitAnalyzeFailed ==
    /\ deleted = {}
    /\ now = MaxStamp + 1
    /\ runs = 1
    /\ pc = "loop"
    /\ \E n \in 0..MaxFailedObs :
          \E ts \in [1..n -> 0..MaxStamp],
             ls \in {l \in [1..n -> 0..2] : FailedOrInOrderOfFirstUse(l)} :
              cache = CacheWithFailedOf(n, ts, ls)
    /\ index = [r \in Ids(cache) |-> Entry(cache, r).timestamp]
    /\ all_revisions = IndexList(index)
    /\ new_revids_list = <<>>
    /\ i = 0
    /\ retry_count = 0
    /\ waits = <<>>
    /\ attempts = 0
    /\ status = "none"
    /\ html_content = None
    /\ fetchLog = <<>>
    /\ fetchedNone = {}
    /\ result = NoResult
    /\ store = CheckpointData(cache)
    /\ loaded = load_cache(store)
    /\ loadedFrom = store
    /\ truncated = <<>>
    /\ rerun = FALSE
    /\ unchanged = FALSE

SpecAnalyzeFailed == InitAnalyzeFailed /\ [][NextAnalyze]_vars

-----------------------------------------------------------------------------
(* Properties of the timeline, the periods and the ranked list *)

\* The analysis of this run is computed and about to be written.
Analyzed == pc = "final_write"

timeline == result.timeline

sentence_durations == result.sentence_durations

RECURSIVE SumDays(_)
SumDays(periods) ==
    IF periods = <<>> THEN 0 ELSE Head(periods).days + SumDays(Tail(periods))

RECURSIVE SumTotalDays(_)
SumTotalDays(stats) ==
    IF stats = <<>> THEN 0 ELSE Head(stats).total_days + SumTotalDays(Tail(stats))

\* The whole days from the start of the first period to the clock reading that
\* closes the last one.
SpanDays == Days(sentence_durations[1].start_date, result.now1)

NowNotBeforeLast == \A j \in DOMAIN timeline : timeline[j].timestamp <= result.now1

\* C1 as stated: for every non-empty timeline (now not earlier than the last
\* observation) the days of the periods, and the total_days of the reported
\* sentences, sum to exactly the whole days between the first start and now.
C1_CoverageExact ==
    (Analyzed /\ timeline # <<>> /\ NowNotBeforeLast) =>
        /\ sentence_durations # <<>>
        /\ SumDays(sentence_durations) = SpanDays
        /\ SumTotalDays(result.sentences) = SpanDays

\* C1 as amended: each period's days are truncated separately, so the sum never
\* exceeds the whole days between the first start and now and falls short of them
\* by at most one day per period boundary; the total_days of the reported
\* sentences sum to the same number.
C1_CoverageUpToTruncation ==
    (Analyzed /\ timeline # <<>>) =>
        /\ sentence_durations # <<>>
        /\ SumDays(sentence_durations) <= SpanDays
        /\ SumDays(sentence_durations) >= SpanDays - (Len(sentence_durations) - 1)
        /\ SumTotalDays(result.sentences) = SumDays(sentence_durations)

\* Several periods whose truncated days sum to less than the span.
C1_Witness ==
    /\ Analyzed
    /\ Len(sentence_durations) >= 2
    /\ SumDays(sentence_durations) < SpanDays

\* C2: the periods of one analysis are contiguous: each ends at the instant the
\* next one starts, the first starts at the first valid observation and the
\* last ends at the clock reading of the analysis.
C2_Contiguous ==
    (Analyzed /\ timeline # <<>>) =>
        /\ sentence_durations # <<>>
        /\ \A j \in 1..(Len(sentence_durations) - 1) :
               sentence_durations[j].end_date = sentence_durations[j + 1].start_date
        /\ sentence_durations[1].start_date = timeline[1].timestamp
        /\ sentence_durations[Len(sentence_durations)].end_date = now

\* Three periods whose boundaries are distinct instants.
C2_Witness ==
    /\ Analyzed
    /\ Len(sentence_durations) >= 3
    /\ sentence_durations[1].start_date < sentence_durations[2].start_date
    /\ sentence_durations[2].start_date < sentence_durations[3].start_date

\* The positions of the timeline where a maximal run of sentence x starts.
RunStarts(x) ==
    {j \in DOMAIN timeline :
        timeline[j].sentence = x /\ (j = 1 \/ timeline[j - 1].sentence # x)}

\* The instant the run that starts at position j ends: the first later
\* observation of another sentence, or the clock reading of the analysis.
RunEnd(j) ==
    LET later == {m \in DOMAIN timeline :
                     m > j /\ timeline[m].sentence # timeline[j].sentence}
    IN IF later = {} THEN result.now1
       ELSE timeline[CHOOSE m \in later : \A m2 \in later : m <= m2].timestamp

RECURSIVE SumRunDays(_)
SumRunDays(starts) ==
    IF starts = {} THEN 0
    ELSE LET j == CHOOSE j \in starts : TRUE
         IN Days(timeline[j].timestamp, RunEnd(j)) + SumRunDays(starts \ {j})

Reported(x) == {p \in DOMAIN result.sentences : result.sentences[p].sentence = x}

\* C3: a sentence observed in k maximal runs of the timeline is reported once,
\* with total_occurrences k, k periods, and the days of its k runs as total_days;
\* nothing else is reported.
C3_Grouping ==
    Analyzed =>
        /\ \A j \in DOMAIN timeline :
              LET x == timeline[j].sentence
                  k == Cardinality(RunStarts(x))
              IN /\ Cardinality(Reported(x)) = 1
                 /\ \A p \in Reported(x) :
                       /\ result.sentences[p].total_occurrences = k
                       /\ Len(result.sentences[p].periods) = k
                       /\ result.sentences[p].total_days = SumRunDays(RunStarts(x))
        /\ \A p \in DOMAIN result.sentences :
              \E j \in DOMAIN timeline : timeline[j].sentence = result.sentences[p].sentence

\* A sentence that recurs after another one and was in effect for whole days.
C3_Witness ==
    /\ Analyzed
    /\ \E p \in DOMAIN result.sentences :
          /\ result.sentences[p].total_occurrences >= 2
          /\ result.sentences[p].total_days >= 1

\* The position of the first observation of the p-th reported sentence.
FirstAppearance(p) ==
    CHOOSE j \in DOMAIN timeline :
        /\ timeline[j].sentence = result.sentences[p].sentence
        /\ \A m \in 1..(j - 1) : timeline[m].sentence # result.sentences[p].sentence

\* C8 as stated: descending total_days, then descending occurrence count, then
\* first appearance.
C8_RankedByDaysThenOccurrences ==
    Analyzed =>
        \A p, q \in DOMAIN result.sentences :
            p < q =>
                LET a == result.sentences[p]
                    b == result.sentences[q]
                IN \/ a.total_days > b.total_days
                   \/ /\ a.total_days = b.total_days
                      /\ a.total_occurrences > b.total_occurrences
                   \/ /\ a.total_days = b.total_days
                      /\ a.total_occurrences = b.total_occurrences
                      /\ FirstAppearance(p) < FirstAppearance(q)

\* C8 as amended: descending total_days; sentences with equal total_days keep
\* the order of their first appearance in the timeline, whatever their
\* occurrence counts.
C8_RankedByDaysThenFirstAppearance ==
    Analyzed =>
        \A p, q \in DOMAIN result.sentences :
            p < q =>
                LET a == result.sentences[p]
                    b == result.sentences[q]
                IN \/ a.total_days > b.total_days
                   \/ /\ a.total_days = b.total_days
                      /\ FirstAppearance(p) < FirstAppearance(q)

\* A ranked list with a strict descent in days and a tie in days.
C8_Witness ==
    /\ Analyzed
    /\ \E p, q \in DOMAIN result.sentences :
          p < q /\ result.sentences[p].total_days > result.sentences[q].total_days
    /\ \E p, q \in DOMAIN result.sentences :
          /\ p < q
          /\ result.sentences[p].total_days = result.sentences[q].total_days
          /\ result.sentences[p].total_occurrences < result.sentences[q].total_occurrences

-----------------------------------------------------------------------------
(* Properties of the runs: the cache diff, the store, the retries *)

Fetched == Range(fetchLog)

\* The ids the index of this run lists and the loaded cache lacks.
Missing == Ids(all_revisions) \ Ids(loaded)

\* C4: in one run the Content Fetcher is invoked only for ids of the index that
\* the loaded cache lacks, once for each; when the fetch loop is over it has
\* been invoked for all of them, and with nothing missing it is never invoked.
C4_FetchesExactlyTheMissing ==
    /\ Fetched \subseteq Missing
    /\ \A j, m \in DOMAIN fetchLog : fetchLog[j] = fetchLog[m] => j = m
    /\ Analyzed => Fetched = Missing

\* A finished fetch loop of a run that found some revisions cached and others not.
C4_Witness ==
    /\ Analyzed
    /\ Missing # {}
    /\ Ids(loaded) \cap Ids(all_revisions) # {}

\* The revision_cache of the most recently completed save, while a run is on.
LastSaved == IF store.kind = "partial" THEN truncated ELSE store.revision_cache

\* C5: whenever a run ends, be it by a return or by an interruption, the next
\* load_cache returns every entry of the most recently completed save.
C5_CrashSafe ==
    [][(~Resting /\ pc' = "idle") =>
          \A e \in Range(LastSaved) : e \in Range(load_cache(store'))]_vars

\* The last answer was a 429 with no retry left, and the fetch returned.
Exhausted == pc = "loop" /\ status = "429"

\* The revision the latest fetch was for, once the fetch has returned.
lastFetched == new_revids_list[i]

\* C6 as stated: at most 3 requests for one revision, with waits of 5, 10 and
\* 20 seconds in that order between them; after the last 429 the revision is
\* stored with sentence None and the loop goes on.
C6_AtMostThreeAttempts ==
    /\ attempts <= 3
    /\ waits = SubSeq(<<5, 10, 20>>, 1, Len(waits))
    /\ Exhausted => Entry(cache, lastFetched).sentence = None

\* C6 as amended: at most 4 requests for one revision, the first and three
\* retries, with waits of 5, 10 and 20 seconds in that order before the
\* retries; after the fourth 429 the revision is stored with sentence None and
\* the loop goes on to the next revision.
C6_AtMostThreeRetries ==
    /\ attempts <= 4
    /\ waits = SubSeq(<<5, 10, 20>>, 1, Len(waits))
    /\ pc = "retry" => Len(waits) = attempts
    /\ (pc # "retry" /\ attempts > 0) => Len(waits) = attempts - 1
    /\ Exhausted =>
          /\ attempts = 4
          /\ waits = <<5, 10, 20>>
          /\ lastFetched \in Ids(cache)
          /\ Entry(cache, lastFetched).sentence = None
          /\ lastFetched \in Fetched
          /\ retry_count = 0

\* A revision was given up after the last 429 and another one is still to fetch.
C6_Witness ==
    /\ Exhausted
    /\ i < Len(new_revids_list)

\* C7: every observation of the timeline is of a revision the index of this
\* run lists.
C7_TimelineWithinIndex ==
    Analyzed => \A j \in DOMAIN timeline : timeline[j].revid \in Ids(all_revisions)

FailedIn(c) == {e \in Range(c) : e.sentence = None}

\* C9: a revision whose fetch returned None is written to the store with
\* sentence None by the run that completes; an entry the store holds with
\* sentence None is in the cache load_cache returns, is not fetched by the run
\* that loaded it, and is not in its timeline.
C9_SoftFailuresSticky ==
    /\ [][(Analyzed /\ pc' = "idle" /\ store'.kind = "output") =>
              \A r \in fetchedNone :
                  /\ r \in Ids(store'.revision_cache)
                  /\ Entry(store'.revision_cache, r).sentence = None]_vars
    /\ [](/\ FailedIn(loadedFrom.revision_cache) \subseteq FailedIn(loaded)
          /\ \A e \in FailedIn(loaded) : e.revid \notin Fetched
          /\ \A e \in FailedIn(cache) :
                 \A j \in DOMAIN timeline : timeline[j].revid # e.revid)

\* A run that started from a completed run's store with a failed revision the
\* index still lists, and has built a timeline of the others.
C9_Witness ==
    /\ Analyzed
    /\ loadedFrom.kind = "output"
    /\ \E e \in FailedIn(loaded) : e.revid \in Ids(all_revisions)
    /\ timeline # <<>>

\* The clock did not move between the start and the end of the analysis.
SameNow == result.now1 = result.now2

\* C10: a run that starts from the store of a completed run, with the index
\* and the clock as that run saw them, fetches nothing and writes the store
\* it read: the same revision_cache and the same ranked list.
C10_RerunIdempotent ==
    [][(Analyzed /\ rerun /\ SameNow /\ pc' = "idle" /\ store'.kind = "output") =>
          /\ fetchLog = <<>>
          /\ store'.revision_cache = loadedFrom.revision_cache
          /\ store'.sentences = loadedFrom.sentences]_vars

\* Such a run, about to write a cache and a ranked list that are not empty.
C10_Witness ==
    /\ Analyzed
    /\ rerun
    /\ SameNow
    /\ result.sentences # <<>>
    /\ loadedFrom.kind = "output"
    /\ loadedFrom.revision_cache # <<>>

\* C11: a store that cannot be read (invalid JSON, or an entry that lacks a
\* field) loads as the empty cache; the run then fetches every revision of the
\* index, and its final write holds all of them.
C11_CorruptStoreRecovery ==
    /\ [](loadedFrom \in CorruptStores =>
             /\ loaded = <<>>
             /\ Analyzed => Fetched = Ids(all_revisions))
    /\ [][(loadedFrom \in CorruptStores /\ Analyzed /\ pc' = "idle"
              /\ store'.kind = "output") =>
             Ids(store'.revision_cache) = DOMAIN index]_vars

\* A run that started from a store with an entry lacking a field has fetched
\* the whole index and is about to write.
C11_Witness ==
    /\ Analyzed
    /\ loadedFrom \in CorruptStores
    /\ loadedFrom.kind = "output"
    /\ Fetched = DOMAIN index
    /\ Len(fetchLog) >= 2

\* A fetch has just returned the sentence of a 200 answer.
Normalized == pc = "loop" /\ i >= 1 /\ html_content # None

EndsSentence(s) == s # <<>> /\ s[Len(s)] = "."

OneCleanSentence(s) ==
    /\ EndsSentence(s)
    /\ s[1] # "_"
    /\ \A j \in 1..(Len(s) - 1) :
           /\ ~(s[j] = "_" /\ s[j + 1] = "_")
           /\ ~(s[j] = "." /\ s[j + 1] = "_")
           /\ s[j + 1] \notin {"L", "M", "T"}

ListingFailed == pc = "idle" /\ status = "error"

\* C13: while the index is listed nothing is fetched and the store is the one
\* the run loaded; a listing that fails on any page ends the run with the
\* store as it was and no fetch made.
C13_ListingFailureHarmless ==
    /\ [](pc = "listing" => (fetchLog = <<>> /\ store = loadedFrom))
    /\ [][(pc = "listing" /\ ListingFailed') =>
             (store' = store /\ fetchLog = <<>> /\ fetchLog' = <<>>)]_vars

\* The listing failed in a run whose store was a completed run's output and
\* whose index had a revision to fetch.
C13_Witness ==
    /\ ListingFailed
    /\ store.kind = "output"
    /\ store.revision_cache # <<>>
    /\ DOMAIN index \ Ids(store.revision_cache) # {}

\* C14: the observations of the timeline are in non-decreasing order of their
\* own timestamps, so every period starts no later than it ends and lasts a
\* non-negative number of days.
C14_TimelineInTimeOrder ==
    Analyzed =>
        /\ \A j \in 1..(Len(timeline) - 1) :
               timeline[j].timestamp <= timeline[j + 1].timestamp
        /\ \A j \in DOMAIN sentence_durations :
               /\ sentence_durations[j].start_date <= sentence_durations[j].end_date
               /\ sentence_durations[j].days >= 0

\* The positions of the timeline where a maximal run of equal sentences starts.
AllRunStarts ==
    {j \in DOMAIN timeline : j = 1 \/ timeline[j].sentence # timeline[j - 1].sentence}

\* The position where the k-th maximal run starts.
RunStart(k) ==
    CHOOSE j \in AllRunStarts : Cardinality({m \in AllRunStarts : m < j}) = k - 1

\* C15: there is one period per maximal run of equal sentences in the
\* timeline; the k-th period carries the sentence of the k-th run, starts at
\* the timestamp of the run's first observation and ends at the timestamp of
\* the next run's first observation, the last one at now; adjacent periods
\* carry different sentences.
C15_OnePeriodPerRun ==
    Analyzed =>
        /\ Len(sentence_durations) = Cardinality(AllRunStarts)
        /\ \A k \in DOMAIN sentence_durations :
               /\ sentence_durations[k].sentence = timeline[RunStart(k)].sentence
               /\ sentence_durations[k].start_date = timeline[RunStart(k)].timestamp
               /\ sentence_durations[k].end_date =
                      IF k < Len(sentence_durations)
                      THEN timeline[RunStart(k + 1)].timestamp
                      ELSE result.now2
        /\ \A k \in 1..(Len(sentence_durations) - 1) :
               sentence_durations[k].sentence # sentence_durations[k + 1].sentence
        /\ timeline = <<>> => (sentence_durations = <<>> /\ result.sentences = <<>>)

\* Observations A, A, B at three different instants: two periods.
C15_Witness ==
    /\ Analyzed
    /\ Len(timeline) = 3
    /\ Len(sentence_durations) = 2
    /\ timeline[1].sentence = timeline[2].sentence
    /\ timeline[1].timestamp < timeline[2].timestamp
    /\ timeline[2].timestamp < timeline[3].timestamp

\* The failed entry e lies in time between the observations at the timeline
\* positions j and j + 1.
FailedBetween(e, j) ==
    /\ e.sentence = None
    /\ timeline[j].timestamp < e.timestamp
    /\ e.timestamp < timeline[j + 1].timestamp

\* C16: a cache entry without a sentence is no observation of the timeline;
\* when it lies in time between two consecutive observations of one sentence,
\* one period of that sentence covers both of them and no period starts or
\* ends at the entry's timestamp.
C16_FailedEntriesSkipped ==
    Analyzed =>
        /\ \A e \in FailedIn(cache) :
               \A j \in DOMAIN timeline : timeline[j].revid # e.revid
        /\ \A e \in FailedIn(cache) :
               \A j \in 1..(Len(timeline) - 1) :
                   (FailedBetween(e, j)
                        /\ timeline[j].sentence = timeline[j + 1].sentence) =>
                       /\ \E p \in DOMAIN sentence_durations :
                              /\ sentence_durations[p].sentence = timeline[j].sentence
                              /\ sentence_durations[p].start_date <= timeline[j].timestamp
                              /\ sentence_durations[p].end_date >= timeline[j + 1].timestamp
                       /\ \A p \in DOMAIN sentence_durations :
                              /\ sentence_durations[p].start_date # e.timestamp
                              /\ sentence_durations[p].end_date # e.timestamp

\* A failed entry between two observations of one sentence, which is the only
\* period.
C16_Witness ==
    /\ Analyzed
    /\ Len(timeline) = 2
    /\ Len(sentence_durations) = 1
    /\ \E e \in FailedIn(cache) : FailedBetween(e, 1)

\* The latest answer of the render service was a failure other than a 429.
FailedOnce == pc = "loop" /\ status = "error"

\* C17: a request is repeated only after a 429; the step that receives another
\* failure returns to the loop with the revision stored under sentence None,
\* leaves no wait and no request pending, and no revision is fetched twice in
\* one run.
C17_FailuresNotRetried ==
    /\ [](pc = "retry" => status = "429")
    /\ [](\A j, m \in DOMAIN fetchLog : fetchLog[j] = fetchLog[m] => j = m)
    /\ [](FailedOnce => (/\ waits = <<>>
                         /\ attempts = 0
                         /\ retry_count = 0
                         /\ lastFetched \in fetchedNone
                         /\ Entry(cache, lastFetched).sentence = None))
    /\ [][(AtRequest /\ status' = "error") =>
              /\ pc' = "loop"
              /\ i' = i + 1
              /\ new_revids_list' = new_revids_list
              /\ Len(fetchLog') <= Len(fetchLog) + 1
              /\ fetchLog'[Len(fetchLog')] = revid]_vars

\* A fetch failed otherwise than by a 429 and another revision is still to
\* fetch.
C17_Witness ==
    /\ FailedOnce
    /\ i < Len(new_revids_list)
    /\ Entry(cache, lastFetched).sentence = None

\* The run is in its fetch loop, the write of a checkpoint included.
InFetchLoop == pc \in {"loop", "checkpoint", "fetch", "retry"}

\* The revisions this run has fetched and stored in its cache so far.
FetchedSoFar == {new_revids_list[j] : j \in 1..i}

\* Those of them a load_cache of the store as it stands would not return.
NotPersisted == FetchedSoFar \ Ids(load_cache(store))

\* C18: at every point of the fetch loop at most one batch (CheckpointEvery)
\* of the entries fetched so far is missing from what the store holds; a
\* checkpoint writes the whole in-memory cache; the final save holds every
\* entry of the cache.
C18_CheckpointCadence ==
    /\ [](InFetchLoop => Cardinality(NotPersisted) <= CheckpointEvery)
    /\ [][(pc = "checkpoint" /\ store' # store) => load_cache(store') = cache]_vars
    /\ [][(pc = "final_write" /\ store' # store) => load_cache(store') = cache]_vars

\* The run started from a store that a save of the program completed.
LoadedSaved == loadedFrom.kind \in {"output", "checkpoint"}

\* C19: a load returns the entries of a saved store as they are; the run keeps
\* every loaded entry in its cache and fetches no revision it loaded; each of
\* its saves holds every entry of the store it started from, with the same
\* timestamp and sentence, and beyond them only revisions fetched in this run.
C19_CacheMonotone ==
    /\ [](LoadedSaved => loaded = loadedFrom.revision_cache)
    /\ [](pc # "idle" => \A e \in Range(loaded) : e \in Range(cache))
    /\ [](\A r \in Fetched : r \notin Ids(loaded))
    /\ [][(pc \in {"checkpoint", "final_write"} /\ store' # store) =>
              /\ \A e \in Range(loadedFrom.revision_cache) :
                     e \in Range(store'.revision_cache)
              /\ Ids(store'.revision_cache) \ Ids(loadedFrom.revision_cache)
                     \subseteq Fetched]_vars

\* A run that started from a completed run's store, fetched a revision the
\* store did not hold and is about to save.
C19_Witness ==
    /\ pc = "final_write"
    /\ loadedFrom.kind = "output"
    /\ loaded # <<>>
    /\ Fetched # {}
    /\ Ids(cache) = Ids(loaded) \cup Fetched

\* load_cache has returned.
Loaded == pc = "listing"

RECURSIVE CountPeriods(_)
CountPeriods(sentences) ==
    IF sentences = <<>> THEN 0
    ELSE Len(Head(sentences).periods) + CountPeriods(Tail(sentences))

\* The entries of a raw cache whose sentence clean_sentence turns into None.
Unclean(raw) == {j \in DOMAIN raw : clean_sentence(raw[j].sentence) = None}

\* C20: the load of a store without 'revision_cache' returns one entry for
\* each exported period of each sentence; the load of any store returns no
\* entry whose sentence clean_sentence turns into None, and as many entries
\* fewer than the raw cache as there are such entries.
C20_LoadPrunesAndMigrates ==
    Loaded =>
        /\ loadedFrom.kind = "legacy" =>
               Len(loaded) = CountPeriods(loadedFrom.sentences)
        /\ \A e \in Range(loaded) : e.sentence # None
        /\ Len(RawCache(loadedFrom)) - Len(loaded)
               = Cardinality(Unclean(RawCache(loadedFrom)))

=============================================================================
